---- MODULE Spec2Model ----
(***************************************************************************)
(* The Hero CRUD API of docs_src/nosql_databases/tutorial001.py: five      *)
(* route handlers over one document collection.  The collection is the     *)
(* Motor/MongoDB collaborator; its single-document operations are atomic.  *)
(* Spec handles requests one at a time (every handler runs to its          *)
(* response); SpecConcurrent lets other requests run between the two store *)
(* calls of a PATCH.                                                       *)
(***************************************************************************)
EXTENDS Integers, Sequences, FiniteSets, TLC

VARIABLES
    collection,  \* the "heroes" collection: documents in natural (insertion) order
    nextId,      \* number of identifiers the store has generated so far
    pending,     \* PATCH requests between their update_one and their find_one
    resp,        \* the response completed by the last step (op "none": no response)
    deleted,     \* history: identifiers whose DELETE answered 200
    fresh        \* history: identifier -> body of its POST response, while no
                 \* update or delete has matched that identifier

vars == <<collection, nextId, pending, resp, deleted, fresh>>

\* ---------------------------------------------------------------- bounds
\* Number of inserts the store performs.
MaxHeroes == 2
\* Number of PATCH requests that may be in flight at once (SpecConcurrent).
MaxPending == 2
\* Query(default=100, le=100)
MaxLimit == 100

\* ----------------------------------------------------------- JSON values
Null == <<"null">>
JStr(s) == <<"str", s>>
JInt(n) == <<"int", n>>
IsNull(v) == v[1] = "null"
IsStr(v) == v[1] = "str"
IsInt(v) == v[1] = "int"

Has(b, k) == k \in DOMAIN b

\* ------------------------------------------------------------- ObjectId
\* An ObjectId value is modelled by the number its 12 bytes denote; its text
\* form is 24 hexadecimal characters, a sequence of one-character strings.
HexDigits == <<"0", "1", "2", "3", "4", "5", "6", "7", "8", "9",
               "a", "b", "c", "d", "e", "f">>

HexUpper == <<"0", "1", "2", "3", "4", "5", "6", "7", "8", "9",
              "A", "B", "C", "D", "E", "F">>

\* the value of each hexadecimal character, either case
HexValue ==
    [c \in {HexDigits[i] : i \in 1..16} \cup {HexUpper[i] : i \in 1..16} |->
        (CHOOSE i \in 1..16 : HexDigits[i] = c \/ HexUpper[i] = c) - 1]

IsHexChar(c) == c \in DOMAIN HexValue

\* the number denoted by the first n characters of s
RECURSIVE HexToInt(_, _)
HexToInt(s, n) ==
    IF n = 0 THEN 0 ELSE 16 * HexToInt(s, n - 1) + HexValue[s[n]]

\* n as len lower-case hexadecimal characters
RECURSIVE IntToHex(_, _)
IntToHex(n, len) ==
    IF len = 0 THEN <<>>
    ELSE Append(IntToHex(n \div 16, len - 1), HexDigits[(n % 16) + 1])

\* The ObjectId() the store generates for its n-th insert: fresh on every call.
NewObjectId(n) == 10 + n

\* str(ObjectId): 24 lower-case hex characters (the serializer of PyObjectId),
\* tabulated over the identifiers of one byte.
ObjectIdText == [oid \in 0..255 |-> IntToHex(oid, 24)]

ObjectIdStr(oid) == ObjectIdText[oid]

\* ------------------------------------------------------------ the inputs
\* Identifier texts of requests: those the store assigns, the first of them in
\* upper case, a well-formed one the store never assigns, the tests'
\* "invalid-id", and 24 characters that are not all hexadecimal.
UnassignedId == ObjectIdStr(255)
UpperId == [i \in 1..24 |-> IF i = 24 THEN "A" ELSE "0"]
InvalidId == <<"i", "n", "v", "a", "l", "i", "d", "-", "i", "d">>
NonHexId == [i \in 1..24 |-> IF i = 24 THEN "g" ELSE "0"]

PathIds ==
    {ObjectIdStr(NewObjectId(n)) : n \in 0..(MaxHeroes - 1)}
        \cup {UpperId, UnassignedId, InvalidId, NonHexId}

\* ObjectId(text) raises InvalidId unless text is 24 hexadecimal characters;
\* tabulated over the texts of the requests.
ObjectIdAccepts ==
    [s \in PathIds |-> Len(s) = 24 /\ \A i \in 1..Len(s) : IsHexChar(s[i])]

ObjectIdValid(s) == ObjectIdAccepts[s]

\* ObjectId(text) for an accepted text: upper and lower case denote the same bytes.
ObjectIdValue == [s \in {t \in PathIds : ObjectIdAccepts[t]} |-> HexToInt(s, Len(s))]

ObjectId(s) == ObjectIdValue[s]

CreateBodies ==
    { [name |-> JStr("Deadpond"), secret_name |-> JStr("Dive Wilson"), age |-> JInt(30)],
      [name |-> JStr("Deadpond"), secret_name |-> JStr("Dive Wilson")],
      [name |-> JStr(""), secret_name |-> JStr("Dive Wilson"), age |-> Null],
      [name |-> JStr("Deadpond")],
      [name |-> Null, secret_name |-> JStr("Dive Wilson")],
      [name |-> JStr("Deadpond"), secret_name |-> JStr("Dive Wilson"),
       id |-> JStr(UnassignedId)],
      [name |-> JStr("Deadpond"), secret_name |-> JStr("Dive Wilson"),
       _id |-> JStr(InvalidId)] }

UpdateBodies ==
    { << >>,
      [name |-> JStr("Deadpond"), age |-> JInt(30)],
      [age |-> Null],
      [name |-> Null],
      [age |-> JStr("x")],
      [name |-> JStr(""), _id |-> JStr(UnassignedId)] }

\* skip and limit of GET /heroes/: the defaults, the tests' limit=2, a skip, the
\* limits 0 and -1, a negative skip, and a limit above the maximum
ListQueries ==
    { [skip |-> 0, limit |-> MaxLimit], [skip |-> 0, limit |-> 2],
      [skip |-> 1, limit |-> 1], [skip |-> 0, limit |-> 0],
      [skip |-> 0, limit |-> -1], [skip |-> -1, limit |-> MaxLimit],
      [skip |-> 0, limit |-> MaxLimit + 1] }

\* ------------------------------------------------- the Hero data shapes
\* The id field of a create body: alias "_id", or "id" (populate_by_name).
BodyId(b) == IF Has(b, "_id") THEN <<b["_id"]>>
             ELSE IF Has(b, "id") THEN <<b["id"]>> ELSE <<>>

\* PyObjectId's validator calls ObjectId on a string: InvalidId is no ValueError,
\* so it escapes validation as a server error.
HeroIdRaises(b) ==
    /\ BodyId(b) # <<>>
    /\ IsStr(BodyId(b)[1])
    /\ ~ObjectIdValid(BodyId(b)[1][2])

\* Hero: name: str, age: Optional[int] = None, secret_name: str, id optional.
HeroValid(b) ==
    /\ Has(b, "name") /\ IsStr(b["name"])
    /\ Has(b, "secret_name") /\ IsStr(b["secret_name"])
    /\ Has(b, "age") => (IsInt(b["age"]) \/ IsNull(b["age"]))
    /\ BodyId(b) # <<>> => (IsNull(BodyId(b)[1]) \/ IsStr(BodyId(b)[1]))

\* hero.model_dump(by_alias=True, exclude={"id"})
HeroDump(b) ==
    [name |-> b["name"],
     age |-> IF Has(b, "age") THEN b["age"] ELSE Null,
     secret_name |-> b["secret_name"]]

UpdateFields == {"name", "age", "secret_name"}

\* HeroUpdate: every field Optional, unknown keys ignored.
HeroUpdateValid(b) ==
    /\ Has(b, "name") => (IsStr(b["name"]) \/ IsNull(b["name"]))
    /\ Has(b, "secret_name") => (IsStr(b["secret_name"]) \/ IsNull(b["secret_name"]))
    /\ Has(b, "age") => (IsInt(b["age"]) \/ IsNull(b["age"]))

\* hero.model_dump(exclude_unset=True): the declared fields the client set.
HeroUpdateDump(b) == [k \in (DOMAIN b) \cap UpdateFields |-> b[k]]

\* Hero(**document) succeeds only on a document that satisfies the Hero model.
DocValid(d) ==
    /\ IsStr(d.name)
    /\ IsStr(d.secret_name)
    /\ IsInt(d.age) \/ IsNull(d.age)

\* The serialized Hero: by alias, the identifier as its string form.
HeroJson(d) ==
    [_id |-> ObjectIdStr(d._id), name |-> d.name, age |-> d.age,
     secret_name |-> d.secret_name]

\* ----------------------------------------------- the collection contract
Ids(coll) == {coll[i]._id : i \in 1..Len(coll)}

\* mutant: the identifier taken from the size of the collection
InsertOneBySize(coll, doc, n) ==
    [coll |-> Append(coll, [_id |-> NewObjectId(Len(coll)), name |-> doc.name,
                            age |-> doc.age, secret_name |-> doc.secret_name]),
     inserted_id |-> NewObjectId(Len(coll))]

\* insert_one: appends the document under a newly generated identifier.
InsertOne(coll, doc, n) ==
    [coll |-> Append(coll, [_id |-> NewObjectId(n), name |-> doc.name,
                            age |-> doc.age, secret_name |-> doc.secret_name]),
     inserted_id |-> NewObjectId(n)]

\* mutant: the filter dropped, find_one({})
FindOneAny(coll, oid) ==
    IF coll = <<>> THEN <<>> ELSE <<coll[1]>>

\* find_one({"_id": oid}): <<the document>> or <<>> for None.
FindOne(coll, oid) ==
    LET hits == SelectSeq(coll, LAMBDA d : d._id = oid)
    IN  IF hits = <<>> THEN <<>> ELSE <<hits[1]>>

\* {"$set": set} applied to one document.
SetDoc(d, set) ==
    [_id |-> d._id,
     name |-> IF Has(set, "name") THEN set["name"] ELSE d.name,
     age |-> IF Has(set, "age") THEN set["age"] ELSE d.age,
     secret_name |-> IF Has(set, "secret_name") THEN set["secret_name"]
                     ELSE d.secret_name]

\* mutant: upsert=True, a document made of the set fields when nothing matches
UpdateOneUpsert(coll, oid, set) ==
    IF oid \in Ids(coll)
    THEN [coll |-> [i \in 1..Len(coll) |->
                      IF coll[i]._id = oid THEN SetDoc(coll[i], set) ELSE coll[i]],
          matched_count |-> 1]
    ELSE [coll |-> Append(coll, SetDoc([_id |-> oid, name |-> Null, age |-> Null,
                                        secret_name |-> Null], set)),
          matched_count |-> 0]

\* update_one({"_id": oid}, {"$set": set}): no upsert; matched_count 0 or 1.
UpdateOne(coll, oid, set) ==
    [coll |-> [i \in 1..Len(coll) |->
                 IF coll[i]._id = oid THEN SetDoc(coll[i], set) ELSE coll[i]],
     matched_count |-> IF oid \in Ids(coll) THEN 1 ELSE 0]

\* delete_one({"_id": oid}): deleted_count 0 or 1.
DeleteOne(coll, oid) ==
    [coll |-> SelectSeq(coll, LAMBDA d : d._id # oid),
     deleted_count |-> IF oid \in Ids(coll) THEN 1 ELSE 0]

\* cursor.limit(limit) of the MongoDB driver behind Motor: a limit of 0 is no
\* limit, a negative limit asks for one batch of abs(limit) documents.
CursorLimit(docs, limit) ==
    LET n == IF limit < 0 THEN -limit ELSE limit
    IN  IF limit = 0 \/ n >= Len(docs) THEN docs ELSE SubSeq(docs, 1, n)

\* find().skip(skip).limit(limit), iterated in natural order, for skip >= 0
\* (cursor.skip raises ValueError on a negative skip: see ReadHeroes).
Cursor(coll, skip, limit) ==
    CursorLimit(SubSeq(coll, skip + 1, Len(coll)), limit)

\* ------------------------------------------------------------ responses
NoResponse ==
    [op |-> "none", path |-> <<>>, req |-> <<>>, status |-> 0, body |-> <<>>,
     calls |-> <<>>]

Response(op, path, req, status, body, calls) ==
    [op |-> op, path |-> path, req |-> req, status |-> status, body |-> body,
     calls |-> calls]

InvalidIdBody == [detail |-> "Invalid hero ID format"]
NotFoundBody == [detail |-> "Hero not found"]
ValidationBody == [detail |-> "validation error"]
ServerErrorBody == [detail |-> "Internal Server Error"]

\* return Hero(**document): 200 with the Hero, or the model's ValidationError
\* escaping the handler as a server error.
HeroResponse(op, path, req, d, calls) ==
    IF DocValid(d) THEN Response(op, path, req, 200, HeroJson(d), calls)
    ELSE Response(op, path, req, 500, ServerErrorBody, calls)

Init ==
    /\ collection = <<>>
    /\ nextId = 0
    /\ pending = {}
    /\ resp = NoResponse
    /\ deleted = {}
    /\ fresh = {}

\* history bookkeeping: an update or a delete has matched oid
Touch(f, oid) == {e \in f : e[1] # oid}

\* mutant: model_dump without exclude={"id"}, a client-supplied id is inserted
CreateHeroKeepsId(b) ==
    /\ UNCHANGED <<pending, deleted>>
    /\ IF HeroIdRaises(b)
       THEN /\ resp' = Response("POST", <<>>, b, 500, ServerErrorBody, <<>>)
            /\ UNCHANGED <<collection, nextId, fresh>>
       ELSE IF ~HeroValid(b)
       THEN /\ resp' = Response("POST", <<>>, b, 422, ValidationBody, <<>>)
            /\ UNCHANGED <<collection, nextId, fresh>>
       ELSE LET hero_dict == HeroDump(b)
                given == BodyId(b) # <<>> /\ IsStr(BodyId(b)[1])
                id == IF given THEN ObjectId(BodyId(b)[1][2]) ELSE NewObjectId(nextId)
                hero == [_id |-> id, name |-> hero_dict.name, age |-> hero_dict.age,
                         secret_name |-> hero_dict.secret_name]
            IN  /\ nextId < MaxHeroes
                /\ collection' = Append(collection, hero)
                /\ nextId' = nextId + 1
                /\ resp' = HeroResponse("POST", <<>>, b, hero, <<"insert_one">>)
                /\ fresh' = fresh \cup {<<id, HeroJson(hero)>>}

\* POST /heroes/
CreateHero(b) ==
    /\ UNCHANGED <<pending, deleted>>
    /\ IF HeroIdRaises(b)
       THEN /\ resp' = Response("POST", <<>>, b, 500, ServerErrorBody, <<>>)
            /\ UNCHANGED <<collection, nextId, fresh>>
       ELSE IF ~HeroValid(b)
       THEN /\ resp' = Response("POST", <<>>, b, 422, ValidationBody, <<>>)
            /\ UNCHANGED <<collection, nextId, fresh>>
       ELSE LET hero_dict == HeroDump(b)
                result == InsertOne(collection, hero_dict, nextId)
                hero == [_id |-> result.inserted_id, name |-> hero_dict.name,
                         age |-> hero_dict.age,
                         secret_name |-> hero_dict.secret_name]
            IN  /\ nextId < MaxHeroes
                /\ collection' = result.coll
                /\ nextId' = nextId + 1
                /\ resp' = HeroResponse("POST", <<>>, b, hero, <<"insert_one">>)
                /\ fresh' = fresh \cup {<<result.inserted_id, HeroJson(hero)>>}

\* GET /heroes/?skip=&limit=: a limit above 100 fails Query(le=100); a negative
\* skip makes cursor.skip raise; a document that is no Hero makes Hero(**document)
\* raise
ReadHeroes(skip, limit) ==
    /\ UNCHANGED <<collection, nextId, pending, deleted, fresh>>
    /\ LET q == [skip |-> skip, limit |-> limit]
       IN  IF limit > MaxLimit
           THEN resp' = Response("LIST", <<>>, q, 422, ValidationBody, <<>>)
           ELSE IF skip < 0
           THEN resp' = Response("LIST", <<>>, q, 500, ServerErrorBody, <<>>)
           ELSE LET docs == Cursor(collection, skip, limit)
                IN  IF \A i \in 1..Len(docs) : DocValid(docs[i])
                    THEN resp' = Response("LIST", <<>>, q, 200,
                                          [i \in 1..Len(docs) |-> HeroJson(docs[i])],
                                          <<"find">>)
                    ELSE resp' = Response("LIST", <<>>, q, 500, ServerErrorBody,
                                          <<"find">>)

\* mutant: the identifier text passed to find_one unconverted; a malformed one
\* matches nothing
ReadHeroByText(p) ==
    /\ UNCHANGED <<collection, nextId, pending, deleted, fresh>>
    /\ IF ~ObjectIdValid(p)
       THEN resp' = Response("GET", p, <<>>, 404, NotFoundBody, <<"find_one">>)
       ELSE LET hero == FindOne(collection, ObjectId(p))
            IN  IF hero = <<>>
                THEN resp' = Response("GET", p, <<>>, 404, NotFoundBody, <<"find_one">>)
                ELSE resp' = HeroResponse("GET", p, <<>>, hero[1], <<"find_one">>)

\* GET /heroes/{hero_id}
ReadHero(p) ==
    /\ UNCHANGED <<collection, nextId, pending, deleted, fresh>>
    /\ IF ~ObjectIdValid(p)
       THEN resp' = Response("GET", p, <<>>, 400, InvalidIdBody, <<>>)
       ELSE LET hero == FindOne(collection, ObjectId(p))
            IN  IF hero = <<>>
                THEN resp' = Response("GET", p, <<>>, 404, NotFoundBody, <<"find_one">>)
                ELSE resp' = HeroResponse("GET", p, <<>>, hero[1], <<"find_one">>)

\* the tail of update_hero: find_one, then 404 or the Hero
UpdateHeroFetch(p, b, coll, calls) ==
    LET updated_hero == FindOne(coll, ObjectId(p))
    IN  IF updated_hero = <<>>
        THEN Response("PATCH", p, b, 404, NotFoundBody, Append(calls, "find_one"))
        ELSE HeroResponse("PATCH", p, b, updated_hero[1], Append(calls, "find_one"))

\* PATCH /heroes/{hero_id}, the handler run to its response without interruption
UpdateHero(p, b) ==
    /\ UNCHANGED <<nextId, pending, deleted>>
    /\ IF ~HeroUpdateValid(b)
       THEN /\ resp' = Response("PATCH", p, b, 422, ValidationBody, <<>>)
            /\ UNCHANGED <<collection, fresh>>
       ELSE IF ~ObjectIdValid(p)
       THEN /\ resp' = Response("PATCH", p, b, 400, InvalidIdBody, <<>>)
            /\ UNCHANGED <<collection, fresh>>
       ELSE LET hero_dict == HeroUpdateDump(b)
            IN  IF DOMAIN hero_dict # {}
                THEN LET result == UpdateOne(collection, ObjectId(p), hero_dict)
                     IN  IF result.matched_count = 0
                         THEN /\ resp' = Response("PATCH", p, b, 404, NotFoundBody,
                                                  <<"update_one">>)
                              /\ collection' = result.coll
                              /\ UNCHANGED fresh
                         ELSE /\ collection' = result.coll
                              /\ fresh' = Touch(fresh, ObjectId(p))
                              /\ resp' = UpdateHeroFetch(p, b, result.coll,
                                                         <<"update_one">>)
                ELSE /\ resp' = UpdateHeroFetch(p, b, collection, <<>>)
                     /\ UNCHANGED <<collection, fresh>>

\* DELETE /heroes/{hero_id}
DeleteHero(p) ==
    /\ UNCHANGED <<nextId, pending>>
    /\ IF ~ObjectIdValid(p)
       THEN /\ resp' = Response("DELETE", p, <<>>, 400, InvalidIdBody, <<>>)
            /\ UNCHANGED <<collection, deleted, fresh>>
       ELSE LET result == DeleteOne(collection, ObjectId(p))
            IN  /\ collection' = result.coll
                /\ IF result.deleted_count = 0
                   THEN /\ resp' = Response("DELETE", p, <<>>, 404, NotFoundBody,
                                            <<"delete_one">>)
                        /\ UNCHANGED <<deleted, fresh>>
                   ELSE /\ resp' = Response("DELETE", p, <<>>, 200, [ok |-> TRUE],
                                            <<"delete_one">>)
                        /\ deleted' = deleted \cup {ObjectId(p)}
                        /\ fresh' = Touch(fresh, ObjectId(p))

\* A PATCH makes two store calls when it is valid, sets a field and matches.
TwoCalls(p, b) ==
    /\ HeroUpdateValid(b)
    /\ ObjectIdValid(p)
    /\ DOMAIN HeroUpdateDump(b) # {}
    /\ ObjectId(p) \in Ids(collection)

\* PATCH up to and including its first store call: the update_one of a request
\* that goes on to find_one leaves the request in flight.
UpdateHeroStart(p, b) ==
    IF TwoCalls(p, b)
    THEN /\ Cardinality(pending) < MaxPending
         /\ collection' = UpdateOne(collection, ObjectId(p), HeroUpdateDump(b)).coll
         /\ pending' = pending \cup {[path |-> p, req |-> b]}
         /\ fresh' = Touch(fresh, ObjectId(p))
         /\ resp' = NoResponse
         /\ UNCHANGED <<nextId, deleted>>
    ELSE UpdateHero(p, b)

\* PATCH from its find_one on, for a request in flight
UpdateHeroFinish(r) ==
    /\ r \in pending
    /\ pending' = pending \ {r}
    /\ resp' = UpdateHeroFetch(r.path, r.req, collection, <<"update_one">>)
    /\ UNCHANGED <<collection, nextId, deleted, fresh>>

Next ==
    \/ \E b \in CreateBodies : CreateHero(b)
    \/ \E q \in ListQueries : ReadHeroes(q.skip, q.limit)
    \/ \E p \in PathIds : ReadHero(p)
    \/ \E p \in PathIds, b \in UpdateBodies : UpdateHero(p, b)
    \/ \E p \in PathIds : DeleteHero(p)

Spec == Init /\ [][Next]_vars

NextConcurrent ==
    \/ \E b \in CreateBodies : CreateHero(b)
    \/ \E q \in ListQueries : ReadHeroes(q.skip, q.limit)
    \/ \E p \in PathIds : ReadHero(p)
    \/ \E p \in PathIds, b \in UpdateBodies : UpdateHeroStart(p, b)
    \/ \E r \in pending : UpdateHeroFinish(r)
    \/ \E p \in PathIds : DeleteHero(p)

SpecConcurrent == Init /\ [][NextConcurrent]_vars

\* ================================================================ claims
\* the requests that take a path identifier
ItemOps == {"GET", "PATCH", "DELETE"}

\* a response to a PATCH whose body passed HeroUpdate and set at least one field
SetsField(r) ==
    /\ r.op = "PATCH"
    /\ HeroUpdateValid(r.req)
    /\ DOMAIN HeroUpdateDump(r.req) # {}

\* a response to a PATCH whose body passed HeroUpdate and set no field
SetsNothing(r) ==
    /\ r.op = "PATCH"
    /\ HeroUpdateValid(r.req)
    /\ DOMAIN HeroUpdateDump(r.req) = {}

\* the identifiers of a collection, in its order
IdSeq(coll) == [i \in 1..Len(coll) |-> coll[i]._id]

Min(a, b) == IF a <= b THEN a ELSE b

\* ------------------------------------------------------------------ C1
\* C1 as stated: a GET, PATCH or DELETE whose path identifier is not well formed
\* is answered 400 and makes no store call, whatever the PATCH body contains.
C1_InvalidIdIs400 ==
    (resp.op \in ItemOps /\ ~ObjectIdValid(resp.path))
        => (resp.status = 400 /\ resp.calls = <<>>)

\* C1 amended: a GET, PATCH or DELETE whose path identifier is not well formed
\* makes no store call and leaves the collection unchanged; it is answered 400,
\* except a PATCH whose body fails HeroUpdate validation, which is answered 422.
C1_InvalidIdNoStore ==
    [][ (resp'.op \in ItemOps /\ ~ObjectIdValid(resp'.path))
          => /\ resp'.status =
                  IF resp'.op = "PATCH" /\ ~HeroUpdateValid(resp'.req)
                  THEN 422 ELSE 400
             /\ resp'.calls = <<>>
             /\ collection' = collection ]_vars

\* C1 witness: a PATCH that sets a field, on a malformed identifier, answered
\* 400 while the collection holds a record.
C1_Witness ==
    /\ SetsField(resp)
    /\ resp.path = InvalidId
    /\ resp.status = 400
    /\ collection # <<>>

\* ------------------------------------------------------------------ C2
\* C2: a PATCH that sets at least one field on an existing Hero leaves the
\* stored record with exactly the set fields changed to the supplied values,
\* the other fields and the identifier as before, and is answered 200 with
\* that stored record.
C2_PartialUpdate ==
    [][ (/\ SetsField(resp')
         /\ ObjectIdValid(resp'.path)
         /\ ObjectId(resp'.path) \in Ids(collection))
          => LET oid == ObjectId(resp'.path)
                 old == FindOne(collection, oid)[1]
                 new == FindOne(collection', oid)
             IN  /\ new # <<>>
                 /\ IdSeq(collection') = IdSeq(collection)
                 /\ \A k \in UpdateFields :
                       new[1][k] = IF Has(resp'.req, k) THEN resp'.req[k] ELSE old[k]
                 /\ resp'.status = 200
                 /\ resp'.body = HeroJson(new[1]) ]_vars

\* ------------------------------------------------------------------ C3
\* C3: a PATCH with a well-formed identifier and no set field never calls
\* update_one and leaves the collection unchanged; it is answered 200 with the
\* stored record if the record exists, 404 if it does not.
C3_EmptyUpdate ==
    [][ (SetsNothing(resp') /\ ObjectIdValid(resp'.path))
          => LET hero == FindOne(collection, ObjectId(resp'.path))
             IN  /\ resp'.calls = <<"find_one">>
                 /\ collection' = collection
                 /\ IF hero = <<>>
                    THEN resp'.status = 404
                    ELSE resp'.status = 200 /\ resp'.body = HeroJson(hero[1]) ]_vars

\* ------------------------------------------------------------------ C4
\* C4: once a DELETE has answered 200 for an identifier, no record has that
\* identifier in any later state, every later GET, PATCH and DELETE on it is
\* answered 404, and no list response contains it.
C4_DeletedStaysDeleted ==
    [][ /\ (resp'.op = "DELETE" /\ resp'.status = 200)
              => /\ resp'.body = [ok |-> TRUE]
                 /\ ObjectId(resp'.path) \in Ids(collection)
                 /\ ObjectId(resp'.path) \notin Ids(collection')
        /\ \A oid \in deleted :
              /\ oid \notin Ids(collection')
              /\ (/\ resp'.op \in ItemOps
                  /\ resp'.op = "PATCH" => HeroUpdateValid(resp'.req)
                  /\ ObjectIdValid(resp'.path)
                  /\ ObjectId(resp'.path) = oid) => resp'.status = 404
              /\ (resp'.op = "LIST" /\ resp'.status = 200)
                    => \A i \in 1..Len(resp'.body) :
                          resp'.body[i]._id # ObjectIdStr(oid) ]_vars

\* C4 witness: a GET on a deleted identifier answered 404 after a later create.
C4_Witness ==
    /\ resp.op = "GET"
    /\ ObjectIdValid(resp.path)
    /\ ObjectId(resp.path) \in deleted
    /\ resp.status = 404
    /\ collection # <<>>

\* ------------------------------------------------------------------ C5
\* C5: a GET, a PATCH that sets a field, and a DELETE on a well-formed
\* identifier that names no stored record are answered 404 and leave the
\* collection unchanged.
C5_AbsentIs404 ==
    [][ (/\ resp'.op \in {"GET", "DELETE"} \/ SetsField(resp')
         /\ ObjectIdValid(resp'.path)
         /\ ObjectId(resp'.path) \notin Ids(collection))
          => (resp'.status = 404 /\ collection' = collection) ]_vars

\* C5 witness: a PATCH that sets a field on an identifier no record has,
\* answered 404 while the collection holds other records.
C5_Witness ==
    /\ SetsField(resp)
    /\ ObjectIdValid(resp.path)
    /\ ObjectId(resp.path) \notin Ids(collection)
    /\ resp.status = 404
    /\ collection # <<>>

\* ------------------------------------------------------------------ C6
\* C6: a list request whose limit is accepted and whose skip is not negative is
\* answered 200 with the stored records after the first skip, at most
\* min(limit, 100) of them (a negative limit read as none).
C6_ListBounded ==
    (resp.op = "LIST" /\ resp.req.limit <= MaxLimit /\ resp.req.skip >= 0)
        => LET n == Min(resp.req.limit, MaxLimit)
               rest == SubSeq(collection, resp.req.skip + 1, Len(collection))
               want == SubSeq(rest, 1, Min(IF n < 0 THEN 0 ELSE n, Len(rest)))
           IN  /\ resp.status = 200
               /\ Len(resp.body) <= (IF n < 0 THEN 0 ELSE n)
               /\ resp.body = [i \in 1..Len(want) |-> HeroJson(want[i])]

C8_IdentifierInvariant ==
    [][ /\ \A i, j \in 1..Len(collection') :
              collection'[i]._id = collection'[j]._id => i = j
        /\ (resp'.op = "POST" /\ resp'.status = 200)
              => /\ ObjectId(resp'.body._id) \notin (Ids(collection) \cup deleted)
                 /\ IdSeq(collection') = Append(IdSeq(collection), ObjectId(resp'.body._id))
        /\ resp'.op \notin {"POST", "DELETE"}
              => IdSeq(collection') = IdSeq(collection)
        /\ resp'.op = "DELETE"
              => IdSeq(collection') =
                    SelectSeq(IdSeq(collection), LAMBDA i : i \in Ids(collection')) ]_vars

\* C8 witness: a PATCH carrying an _id key answered 200 with the identifier of
\* the path, not the one of its body, while two records are stored.
C8_Witness ==
    /\ resp.op = "PATCH"
    /\ Has(resp.req, "_id")
    /\ resp.status = 200
    /\ resp.body._id = resp.path
    /\ resp.body._id # resp.req["_id"][2]
    /\ Len(collection) >= 2

\* ------------------------------------------------------------------ C9
\* C9: every persisted Hero has a name and a secret_name that are strings,
\* never null, and an age that is an integer or null.
C9_DataModel ==
    \A i \in 1..Len(collection) :
        /\ IsStr(collection[i].name)
        /\ IsStr(collection[i].secret_name)
        /\ IsInt(collection[i].age) \/ IsNull(collection[i].age)

\* ----------------------------------------------------------------- C10
\* C10: with other requests running between its two store calls, a PATCH that
\* sets a field is answered 404 exactly when its update_one matched nothing or
\* the record is absent at its find_one, and otherwise 200 with the document
\* stored at the moment of its find_one.
C10_ConcurrentPatch ==
    (SetsField(resp) /\ ObjectIdValid(resp.path))
        => LET hero == FindOne(collection, ObjectId(resp.path))
           IN  /\ resp.status = 404
                     <=> (resp.calls = <<"update_one">> \/ hero = <<>>)
               /\ resp.status # 404
                     => (resp.status = 200 /\ resp.body = HeroJson(hero[1]))

====
